---- MODULE Spec2Model ----
(***************************************************************************)
(* The dispatcher of internvl-backend (src/dispatcher.py): a listener      *)
(* thread that subscribes to a redis channel, decodes every data message   *)
(* and submits it to a ThreadPoolExecutor; the pool's workers run          *)
(* process_thread, which calls process_api (base64 image decoding in       *)
(* src/vlchat.py, then the engine's chat_w_image) and publishes the result *)
(* on the channel named by the request_id.                                 *)
(***************************************************************************)
EXTENDS Integers, Sequences, FiniteSets, TLC

\* src/settings.py:5
MAX_DISPATCHER_WORKERS == 1

\* src/dispatcher.py:112, time.sleep(20)
BACKOFF == 20

\* src/dispatcher.py:77, len(sys.argv)<4
REQUIRED_ARGC == 4

\* Bounds of the model.
MaxMsgs == 2      \* data messages the listener receives in one run
MaxGen == 2       \* executors (successful subscriptions) in one run
MaxPool == 2      \* largest max_workers tried by SpecPool
MaxArgc == 4      \* longest sys.argv tried by SpecStartup

NoKey == "<missing>"
CHAT == "/api/internvl/chat"
UNKNOWN_API == "/unknown"
RequestIds == {"r1", "r2"}
EngineOutputs == {"a cat"}

(***************************************************************************)
(* base64.b64decode(b64_data) with validate=False, as called on            *)
(* src/vlchat.py:121.  A string is a sequence of character classes:        *)
(*   "d" a character of the base64 alphabet, "=" the pad character,        *)
(*   "x" any other character.                                              *)
(* The decoder discards "x", counts pads, stops at a complete pad          *)
(* sequence, and raises binascii.Error when the data characters do not     *)
(* fill a quad.  The result is [ok, n]: ok = FALSE is binascii.Error, n is *)
(* the number of bytes decoded.                                            *)
(***************************************************************************)
RECURSIVE a2b_base64(_, _, _, _, _)
a2b_base64(s, i, quad_pos, pads, n) ==
    IF i > Len(s)
    THEN IF quad_pos = 0 THEN [ok |-> TRUE, n |-> n] ELSE [ok |-> FALSE, n |-> 0]
    ELSE IF s[i] = "="
    THEN IF quad_pos >= 2 /\ quad_pos + pads + 1 >= 4
         THEN [ok |-> TRUE, n |-> n]
         ELSE a2b_base64(s, i + 1, quad_pos,
                         IF quad_pos >= 2 THEN pads + 1 ELSE pads, n)
    ELSE IF s[i] = "x"
    THEN a2b_base64(s, i + 1, quad_pos, pads, n)
    ELSE a2b_base64(s, i + 1, (quad_pos + 1) % 4, 0,
                    IF quad_pos = 0 THEN n ELSE n + 1)

b64decode(s) == a2b_base64(s, 1, 0, 0, 0)

\* RFC 4648 base64: alphabet characters only, in quads, padded at the end
\* with at most two "=".
ValidBase64(s) ==
    /\ Len(s) % 4 = 0
    /\ \A i \in 1..Len(s) : s[i] \in {"d", "="}
    /\ \A i \in 1..Len(s) : s[i] = "=" => i >= Len(s) - 1
    /\ (Len(s) > 0 /\ s[Len(s) - 1] = "=") => s[Len(s)] = "="

(***************************************************************************)
(* load_image_b64 (src/vlchat.py:120-125): b64decode, then Image.open on   *)
(* the bytes.  isImg says whether the decoded bytes are an image file.     *)
(***************************************************************************)
load_image_b64(image, isImg) ==
    LET data == b64decode(image) IN
    IF ~data.ok THEN "binascii.Error"
    ELSE IF data.n = 0 \/ ~isImg THEN "UnidentifiedImageError"
    ELSE "img"

(***************************************************************************)
(* Payloads of data messages.  kind: "badjson" (json.loads raises),        *)
(* "notobj" (JSON, but not an object), "obj".  For an object: rid is the   *)
(* request_id or NoKey; data is "obj", "notobj" or NoKey; api is a string  *)
(* or NoKey; params/text/hasImage say whether the key is present.          *)
(***************************************************************************)
Envelope(rid, api, image, isImg) ==
    [kind |-> "obj", rid |-> rid, data |-> "obj", api |-> api, params |-> TRUE,
     text |-> TRUE, hasImage |-> TRUE, image |-> image, isImg |-> isImg]

BadJson ==
    [kind |-> "badjson", rid |-> NoKey, data |-> NoKey, api |-> NoKey,
     params |-> FALSE, text |-> FALSE, hasImage |-> FALSE, image |-> <<>>,
     isImg |-> FALSE]

GoodImage == <<"d", "d", "d", "d">>
BadPadding == <<"d", "d", "d">>               \* b64decode raises
Lenient == <<"d", "d", "d", "d", "x">>        \* not base64, yet b64decode returns

Payloads ==
    { Envelope("r1", CHAT, GoodImage, TRUE),
      Envelope("r2", CHAT, Lenient, TRUE),
      Envelope("r1", CHAT, BadPadding, TRUE),
      Envelope("r1", CHAT, GoodImage, FALSE),
      Envelope("r2", UNKNOWN_API, GoodImage, TRUE),
      [BadJson EXCEPT !.kind = "obj", !.rid = "r1"],
      BadJson }

\* The traffic of the runs that are about the pool and about the listener.
PoolTraffic == { Envelope("r1", CHAT, GoodImage, TRUE),
                 Envelope("r2", CHAT, Lenient, TRUE),
                 Envelope("r2", UNKNOWN_API, GoodImage, TRUE) }
ListenerTraffic == { Envelope("r1", CHAT, GoodImage, TRUE), BadJson }

\* Messages that decode as JSON and are no request envelopes: no data, no
\* request_id, a top level that is no object, a data that is no object; and
\* a good request.
DropTraffic ==
    { [BadJson EXCEPT !.kind = "obj", !.rid = "r1"],
      [Envelope("r1", CHAT, GoodImage, TRUE) EXCEPT !.rid = NoKey],
      [BadJson EXCEPT !.kind = "notobj"],
      [Envelope("r2", CHAT, GoodImage, TRUE) EXCEPT !.data = "notobj"],
      Envelope("r1", CHAT, GoodImage, TRUE) }

\* Requests on which process_api raises something other than binascii.Error:
\* a missing api, params, image or text key, bytes that are no image, and a
\* good request, on which the engine may raise.
ErrorTraffic ==
    { [Envelope("r2", CHAT, GoodImage, TRUE) EXCEPT !.api = NoKey],
      [Envelope("r1", CHAT, GoodImage, TRUE) EXCEPT !.params = FALSE, !.hasImage = FALSE,
                                                    !.text = FALSE],
      [Envelope("r2", CHAT, GoodImage, TRUE) EXCEPT !.hasImage = FALSE],
      [Envelope("r1", CHAT, GoodImage, TRUE) EXCEPT !.text = FALSE],
      Envelope("r2", CHAT, GoodImage, FALSE),
      Envelope("r1", CHAT, GoodImage, TRUE) }

(***************************************************************************)
(* Results (src/dispatcher.py:31-47).                                      *)
(***************************************************************************)
\* A failure that carries a result field all the same.
Failure_with_result(code, msg) ==
    [code |-> code, msg |-> msg, hasResult |-> TRUE, result |-> "partial"]

Success(r1) == [code |-> 0, msg |-> "success", hasResult |-> TRUE, result |-> r1]
Failure(code, msg) == [code |-> code, msg |-> msg, hasResult |-> FALSE, result |-> NoKey]

\* What chat_w_image does when called: returns an output or raises.
EngineOutcomes == [ok : {TRUE}, out : EngineOutputs] \cup {[ok |-> FALSE, out |-> NoKey]}
NotCalled == [ok |-> FALSE, out |-> "<not called>"]

\* process_api reaches the call of chat_w_image on line 28.
CallsEngine(request) ==
    /\ request.api = CHAT
    /\ request.params
    /\ request.hasImage
    /\ load_image_b64(request.image, request.isImg) = "img"
    /\ request.text

\* The branch of process_api for '/api/internvl/chat' (lines 26-31) with
\* the except clauses that catch what it raises.
chat(request, engine) ==
    IF ~request.params \/ ~request.hasImage
    THEN Failure(9998, "unknown error: KeyError")
    ELSE IF load_image_b64(request.image, request.isImg) = "binascii.Error"
    THEN Failure(9901, "base64 error")
    ELSE IF load_image_b64(request.image, request.isImg) # "img"
    THEN Failure(9998, "unknown error: UnidentifiedImageError")
    ELSE IF ~request.text
    THEN Failure(9998, "unknown error: KeyError")
    ELSE IF engine.ok THEN Success(engine.out)
    ELSE Failure(9998, "unknown error: engine")

\* A success that is built without the engine's output.
process_api_no_result(request, engine) ==
    IF request.api = NoKey THEN Failure(9998, "unknown error: KeyError")
    ELSE IF request.api = CHAT
    THEN IF chat(request, engine).code = 0
         THEN [chat(request, engine) EXCEPT !.hasResult = FALSE, !.result = NoKey]
         ELSE chat(request, engine)
    ELSE Failure(9900, "unknown api")

\* The test of the api is lost: every api is taken for the chat api.
process_api_no_else(request, engine) ==
    IF request.api = NoKey THEN Failure(9998, "unknown error: KeyError")
    ELSE chat(request, engine)

\* The api is read with a default: a request without an api takes the else branch.
process_api_get(request, engine) ==
    IF request.api = CHAT THEN chat(request, engine)
    ELSE Failure(9900, "unknown api")

\* process_api (src/dispatcher.py:22-49); engine is the outcome of the
\* chat_w_image call when the call is reached.
process_api(request, engine) ==
    IF request.api = NoKey THEN Failure(9998, "unknown error: KeyError")
    ELSE IF request.api = CHAT THEN chat(request, engine)
    ELSE Failure(9900, "unknown api")

\* The keys are read with defaults: only a top level that is no object raises.
RaisesBeforeApi_lenient(msg_body) == msg_body.kind # "obj"

\* Line 56 of process_thread raises before process_api is called:
\* msg_body['request_id'], msg_body['data'] or .get is missing.
RaisesBeforeApi(msg_body) ==
    msg_body.kind # "obj" \/ msg_body.rid = NoKey \/ msg_body.data # "obj"

VARIABLES
    argc,          \* len(sys.argv)
    vlchat_model,  \* how many times vlchat.VLChat(...) was constructed; 0 is None
    traffic,       \* the payloads the broker may deliver in this run
    max_workers,   \* ThreadPoolExecutor(max_workers=...)
    broker_up,     \* the redis server is reachable
    lpc,           \* the listener: "subscribe", "listen", "backoff"
    slept,         \* time units the listener slept since its last error
    acked,         \* the subscribe acknowledgement of this subscription was read
    gen,           \* executors created so far; the current one is gen
    cause,         \* executor -> why the listener came to make it
    recv,          \* data messages received: [payload, gen]
    queue,         \* executor -> its _work_queue, job numbers (indices of recv)
    workers,       \* executor -> worker -> [phase, job]
    hist,          \* job -> [starts, calls, built, done, engine]: what was done with it
    published      \* job -> the calls of helper.redis_publish made for it: [chan, res, ok]

vars == <<argc, vlchat_model, traffic, max_workers, broker_up, lpc, slept, acked, gen, cause, recv, queue,
          workers, hist, published>>

Gens == 1..MaxGen
Slots == 1..MaxPool
Jobs == 1..Len(recv)
Idle == [phase |-> "idle", job |-> 0]

\* The state when the while loop is entered (src/dispatcher.py:91): the
\* arguments were given and the engine is constructed.
InitWith(k, payloads) ==
    /\ argc = REQUIRED_ARGC
    /\ vlchat_model = 1
    /\ traffic = payloads
    /\ max_workers = k
    /\ broker_up = TRUE
    /\ lpc = "subscribe"
    /\ slept = 0
    /\ acked = FALSE
    /\ gen = 0
    /\ cause = [g \in Gens |-> "start"]
    /\ recv = <<>>
    /\ queue = [g \in Gens |-> <<>>]
    /\ workers = [g \in Gens |-> [w \in Slots |-> Idle]]
    /\ hist = [j \in 1..MaxMsgs |-> [starts |-> 0, calls |-> 0, built |-> 0, done |-> FALSE,
                                      engine |-> NotCalled]]
    /\ published = [j \in 1..MaxMsgs |-> <<>>]

Init == InitWith(MAX_DISPATCHER_WORKERS, Payloads)

\* The pool with the configured size and with the largest size tried.
InitPool == \E k \in {MAX_DISPATCHER_WORKERS, MaxPool} : InitWith(k, PoolTraffic)

\* Messages that are no request envelopes, and a request.
InitDrop == InitWith(MAX_DISPATCHER_WORKERS, DropTraffic)

\* Requests that make process_api raise.
InitErrors == InitWith(MAX_DISPATCHER_WORKERS, ErrorTraffic)

\* The listener's loop, with little traffic.
InitListener == InitWith(MAX_DISPATCHER_WORKERS, ListenerTraffic)

\* The process as it is launched (src/dispatcher.py:76): sys.argv of any
\* length, no engine yet.
InitStartup ==
    /\ argc \in 1..MaxArgc
    /\ vlchat_model = 0
    /\ traffic = ListenerTraffic
    /\ max_workers = MAX_DISPATCHER_WORKERS
    /\ broker_up = TRUE
    /\ lpc = "start"
    /\ slept = 0
    /\ acked = FALSE
    /\ gen = 0
    /\ cause = [g \in Gens |-> "start"]
    /\ recv = <<>>
    /\ queue = [g \in Gens |-> <<>>]
    /\ workers = [g \in Gens |-> [w \in Slots |-> Idle]]
    /\ hist = [j \in 1..MaxMsgs |-> [starts |-> 0, calls |-> 0, built |-> 0, done |-> FALSE,
                                      engine |-> NotCalled]]
    /\ published = [j \in 1..MaxMsgs |-> <<>>]

\* ---- startup (src/dispatcher.py:76-89) ----------------------------------

\* Lines 77-87: with fewer than four words in sys.argv, print the usage and
\* sys.exit(2); else construct the engine and go on to the loop.
Startup ==
    /\ lpc = "start"
    /\ IF argc < REQUIRED_ARGC
       THEN /\ lpc' = "exit"
            /\ UNCHANGED vlchat_model
       ELSE /\ lpc' = "subscribe"
            /\ vlchat_model' = vlchat_model + 1
    /\ UNCHANGED <<argc, traffic, max_workers, broker_up, slept, acked, gen, cause, recv, queue,
                   workers, hist, published>>

\* Lines 82-87 raise (int() of an argument, or the construction of the
\* engine): the exception ends the process.
StartupFail ==
    /\ lpc = "start"
    /\ argc >= REQUIRED_ARGC
    /\ lpc' = "crash"
    /\ UNCHANGED <<argc, vlchat_model, traffic, max_workers, broker_up, slept, acked, gen, cause,
                   recv, queue, workers, hist, published>>

\* ---- the broker -------------------------------------------------------

BrokerDown ==
    /\ broker_up
    /\ broker_up' = FALSE
    /\ UNCHANGED <<argc, vlchat_model, traffic, max_workers, lpc, slept, acked, gen, cause, recv, queue,
                   workers, hist, published>>

BrokerUp ==
    /\ ~broker_up
    /\ broker_up' = TRUE
    /\ UNCHANGED <<argc, vlchat_model, traffic, max_workers, lpc, slept, acked, gen, cause, recv, queue,
                   workers, hist, published>>

\* ---- the listener (src/dispatcher.py:91-112) ----------------------------

\* The handler lets the exception end the loop.
ListenerExcept_exit ==
    /\ lpc' = "exit"
    /\ slept' = 0

\* except Exception: log, time.sleep(20), and round the while loop again.
ListenerExcept ==
    /\ lpc' = "backoff"
    /\ slept' = 0

\* The error that sends the listener round the loop is what the next executor
\* is made for: "broker" (lines 94, 98 raise) or "json" (line 103 raises).
Because(kind) == cause' = [cause EXCEPT ![gen + 1] = kind]

\* The engine is constructed inside the loop, with every subscription.
Subscribe_reconstruct ==
    /\ lpc = "subscribe"
    /\ broker_up
    /\ gen < MaxGen
    /\ gen' = gen + 1
    /\ lpc' = "listen"
    /\ acked' = FALSE
    /\ vlchat_model' = vlchat_model + 1
    /\ UNCHANGED <<argc, traffic, max_workers, broker_up, slept, cause, recv, queue, workers,
                   hist, published>>

\* Line 94 returns and line 96 makes a new executor.
Subscribe ==
    /\ lpc = "subscribe"
    /\ broker_up
    /\ gen < MaxGen
    /\ gen' = gen + 1
    /\ lpc' = "listen"
    /\ acked' = FALSE
    /\ UNCHANGED <<argc, vlchat_model, traffic, max_workers, broker_up, slept, cause, recv, queue, workers,
                   hist, published>>

\* Line 94 raises: no executor is made.
SubscribeFail ==
    /\ lpc = "subscribe"
    /\ ~broker_up
    /\ ListenerExcept
    /\ Because("broker")
    /\ UNCHANGED <<argc, vlchat_model, traffic, max_workers, broker_up, acked, gen, recv, queue, workers,
                   hist, published>>

\* The event is handled like a data message: its data goes to the executor.
ReceiveControl_submit ==
    /\ lpc = "listen"
    /\ broker_up
    /\ ~acked
    /\ Len(recv) < MaxMsgs
    /\ acked' = TRUE
    /\ recv' = Append(recv, [payload |-> [BadJson EXCEPT !.kind = "notobj"], gen |-> gen])
    /\ queue' = [queue EXCEPT ![gen] = Append(@, Len(recv) + 1)]
    /\ UNCHANGED <<argc, vlchat_model, traffic, max_workers, broker_up, lpc, slept, gen, cause,
                   workers, hist, published>>

\* An event whose type is not 'message': logged, nothing else.
ReceiveControl ==
    /\ lpc = "listen"
    /\ broker_up
    /\ ~acked
    /\ acked' = TRUE
    /\ UNCHANGED <<argc, vlchat_model, traffic, max_workers, broker_up, lpc, slept, gen, cause, recv, queue,
                   workers, hist, published>>

\* executor.submit: the job goes to the end of the current executor's queue.
submit(q, job) == Append(q, job)

\* The listener hands a job over only when a worker is free to take it.
ReceiveMessage_waits(payload) ==
    /\ lpc = "listen"
    /\ broker_up
    /\ acked
    /\ Len(recv) < MaxMsgs
    /\ queue[gen] = <<>>
    /\ \E w \in 1..max_workers : workers[gen][w].phase = "idle"
    /\ recv' = Append(recv, [payload |-> payload, gen |-> gen])
    /\ IF payload.kind = "badjson"
       THEN /\ gen < MaxGen
            /\ ListenerExcept
            /\ Because("json")
            /\ UNCHANGED queue
       ELSE /\ queue' = [queue EXCEPT ![gen] = submit(@, Len(recv) + 1)]
            /\ UNCHANGED <<lpc, slept, cause>>
    /\ UNCHANGED <<argc, vlchat_model, traffic, max_workers, broker_up, acked, gen, workers, hist, published>>

\* An event of type 'message': json.loads, then executor.submit.
ReceiveMessage(payload) ==
    /\ lpc = "listen"
    /\ broker_up
    /\ acked
    /\ Len(recv) < MaxMsgs
    /\ recv' = Append(recv, [payload |-> payload, gen |-> gen])
    /\ IF payload.kind = "badjson"
       THEN /\ gen < MaxGen
            /\ ListenerExcept
            /\ Because("json")
            /\ UNCHANGED queue
       ELSE /\ queue' = [queue EXCEPT ![gen] = submit(@, Len(recv) + 1)]
            /\ UNCHANGED <<lpc, slept, cause>>
    /\ UNCHANGED <<argc, vlchat_model, traffic, max_workers, broker_up, acked, gen, workers, hist, published>>

\* ps.listen() raises: the connection is lost.
ListenError ==
    /\ lpc = "listen"
    /\ ~broker_up
    /\ gen < MaxGen
    /\ ListenerExcept
    /\ Because("broker")
    /\ UNCHANGED <<argc, vlchat_model, traffic, max_workers, broker_up, acked, gen, recv, queue, workers,
                   hist, published>>

\* time.sleep(20) returns: the while loop goes back to line 94.
Wake ==
    /\ lpc = "backoff"
    /\ lpc' = "subscribe"
    /\ slept' = slept + BACKOFF
    /\ UNCHANGED <<argc, vlchat_model, traffic, max_workers, broker_up, acked, gen, cause, recv, queue,
                   workers, hist, published>>

\* ---- the workers of the executors ---------------------------------------

\* The worker reads the oldest job and leaves it on the queue.
Dequeue_peek(q) == q

\* work_queue.get(): the worker takes the oldest job off the queue.
Dequeue(q) == Tail(q)

\* helper.redis_publish(request_id, api_result): the call is logged with the
\* job it was made for; it raises (ok = FALSE) when the broker is unreachable.
redis_publish(log, job, request_id, api_result) ==
    [log EXCEPT ![job] = Append(@, [chan |-> request_id, res |-> api_result,
                                    ok |-> broker_up])]

\* A free worker of executor g takes the oldest pending job and runs
\* process_thread (src/dispatcher.py:53-72) on it: to its end when
\* process_api does not reach the engine, else up to the call of chat_w_image.
WorkerTake(g, w) ==
    /\ g \in 1..gen
    /\ w \in 1..max_workers
    /\ workers[g][w].phase = "idle"
    /\ queue[g] # <<>>
    /\ LET job == Head(queue[g])
           msg_body == recv[job].payload
       IN /\ queue' = [queue EXCEPT ![g] = Dequeue(@)]
          /\ IF RaisesBeforeApi(msg_body)
             THEN /\ hist' = [hist EXCEPT ![job].starts = @ + 1, ![job].done = TRUE]
                  /\ UNCHANGED <<workers, published>>
             ELSE IF CallsEngine(msg_body)
             THEN /\ workers' = [workers EXCEPT ![g][w] = [phase |-> "engine", job |-> job]]
                  /\ hist' = [hist EXCEPT ![job].starts = @ + 1, ![job].calls = @ + 1]
                  /\ UNCHANGED published
             ELSE /\ published' = redis_publish(published, job, msg_body.rid,
                                                process_api(msg_body, NotCalled))
                  /\ hist' = [hist EXCEPT ![job].starts = @ + 1, ![job].built = @ + 1,
                                          ![job].done = TRUE]
                  /\ UNCHANGED workers
    /\ UNCHANGED <<argc, vlchat_model, traffic, max_workers, broker_up, lpc, slept, acked, gen, cause, recv>>

\* A publish that fails puts the job back on the queue to be tried again.
EngineReturn_retry(g, w, engine) ==
    /\ g \in 1..gen
    /\ w \in 1..max_workers
    /\ workers[g][w].phase = "engine"
    /\ LET job == workers[g][w].job
           msg_body == recv[job].payload
       IN /\ published' = redis_publish(published, job, msg_body.rid,
                                        process_api(msg_body, engine))
          /\ hist' = [hist EXCEPT ![job].built = @ + 1, ![job].engine = engine,
                                  ![job].done = broker_up]
          /\ queue' = IF broker_up THEN queue ELSE [queue EXCEPT ![g] = Append(@, job)]
    /\ workers' = [workers EXCEPT ![g][w] = Idle]
    /\ UNCHANGED <<argc, vlchat_model, traffic, max_workers, broker_up, lpc, slept, acked, gen, cause, recv>>

\* msg_body is shared by the workers instead of being the argument of each
\* call: the worker publishes for the message that was received last.
EngineReturn_shared(g, w, engine) ==
    /\ g \in 1..gen
    /\ w \in 1..max_workers
    /\ workers[g][w].phase = "engine"
    /\ LET job == workers[g][w].job
           msg_body == recv[Len(recv)].payload
       IN /\ published' = redis_publish(published, job, msg_body.rid,
                                        process_api(msg_body, engine))
          /\ hist' = [hist EXCEPT ![job].built = @ + 1, ![job].engine = engine,
                                  ![job].done = TRUE]
    /\ workers' = [workers EXCEPT ![g][w] = Idle]
    /\ UNCHANGED <<argc, vlchat_model, traffic, max_workers, broker_up, lpc, slept, acked, gen, cause, recv, queue>>

\* chat_w_image returns or raises; process_api builds the result and
\* process_thread publishes it; the worker is free again.
EngineReturn(g, w, engine) ==
    /\ g \in 1..gen
    /\ w \in 1..max_workers
    /\ workers[g][w].phase = "engine"
    /\ LET job == workers[g][w].job
           msg_body == recv[job].payload
       IN /\ published' = redis_publish(published, job, msg_body.rid,
                                        process_api(msg_body, engine))
          /\ hist' = [hist EXCEPT ![job].built = @ + 1, ![job].engine = engine,
                                  ![job].done = TRUE]
    /\ workers' = [workers EXCEPT ![g][w] = Idle]
    /\ UNCHANGED <<argc, vlchat_model, traffic, max_workers, broker_up, lpc, slept, acked, gen, cause, recv, queue>>

Next ==
    \/ BrokerDown
    \/ BrokerUp
    \/ Subscribe
    \/ SubscribeFail
    \/ ReceiveControl
    \/ \E payload \in traffic : ReceiveMessage(payload)
    \/ ListenError
    \/ Wake
    \/ \E g \in Gens, w \in Slots : WorkerTake(g, w)
    \/ \E g \in Gens, w \in Slots, engine \in EngineOutcomes : EngineReturn(g, w, engine)

Spec == Init /\ [][Next]_vars

SpecPool == InitPool /\ [][Next]_vars

SpecErrors == InitErrors /\ [][Next]_vars

SpecDrop == InitDrop /\ [][Next]_vars

\* The whole process, from its launch.
NextStartup == Startup \/ StartupFail \/ Next

SpecStartup == InitStartup /\ [][NextStartup]_vars

\* The scheduler runs the listener thread: a sleep returns, and the loop
\* goes on to subscribe.
FairSpec ==
    /\ InitListener
    /\ [][Next]_vars
    /\ WF_vars(Wake)
    /\ WF_vars(Subscribe \/ SubscribeFail)

\* ---- what the claims speak of --------------------------------------------

\* The listener submitted message j: json.loads returned.
Submitted(j) == recv[j].payload.kind # "badjson"

\* Message j is a request envelope: process_thread reaches process_api.
IsEnvelope(j) == ~RaisesBeforeApi(recv[j].payload)

\* The workers inside process_thread.
Running == {gw \in Gens \X Slots : workers[gw[1]][gw[2]].phase # "idle"}

\* Nothing is pending and nothing is running.
Quiescent == Running = {} /\ \A g \in Gens : queue[g] = <<>>

\* Every call of redis_publish for job j was made on the channel of j's
\* request_id with a result of this code.
PublishedOnlyCode(j, code) ==
    \A i \in 1..Len(published[j]) :
        /\ published[j][i].chan = recv[j].payload.rid
        /\ published[j][i].res.code = code

\* C1: an envelope with the registered api whose image decodes and whose
\* engine call succeeded has exactly one redis_publish call, on the channel
\* of its request_id, with code 0, msg 'success' and the engine's output.
C1_SuccessPublishedOnce ==
    \A j \in Jobs :
        LET p == recv[j].payload IN
        (/\ IsEnvelope(j)
         /\ p.api = CHAT
         /\ p.params /\ p.hasImage
         /\ load_image_b64(p.image, p.isImg) = "img"
         /\ hist[j].engine.ok)
        => /\ Len(published[j]) = 1
           /\ published[j][1].chan = p.rid
           /\ published[j][1].res = [code |-> 0, msg |-> "success", hasResult |-> TRUE,
                                     result |-> hist[j].engine.out]

C1_Witness ==
    \E j \in Jobs :
        /\ recv[j].payload.api = CHAT
        /\ hist[j].engine.ok
        /\ hist[j].done
        /\ Len(published[j]) = 1

\* C2 as claimed: once nothing is pending, every data message whose payload
\* json.loads rejected has a result with code 9902 published for it.
C2_BadJsonGets9902 ==
    Quiescent =>
        \A j \in Jobs :
            recv[j].payload.kind = "badjson"
            => \E k \in Jobs : \E i \in 1..Len(published[k]) :
                   published[k][i].res.code = 9902

\* C3 as claimed: an envelope with the registered api whose image is not
\* valid base64 never reaches the engine, and what is published for it has
\* code 9901.
C3_NotBase64Gets9901 ==
    \A j \in Jobs :
        LET p == recv[j].payload IN
        (/\ IsEnvelope(j)
         /\ p.api = CHAT
         /\ p.params /\ p.hasImage
         /\ ~ValidBase64(p.image))
        => /\ hist[j].calls = 0
           /\ PublishedOnlyCode(j, 9901)

\* C4: an envelope whose api is not the registered one never reaches the
\* engine, what is published for it is on the channel of its request_id with
\* code 9900, and once it is processed there is exactly one such result.
C4_UnknownApiGets9900 ==
    \A j \in Jobs :
        (IsEnvelope(j) /\ recv[j].payload.api \notin {CHAT, NoKey})
        => /\ hist[j].calls = 0
           /\ PublishedOnlyCode(j, 9900)
           /\ hist[j].done => Len(published[j]) = 1

C4_Witness ==
    \E j \in Jobs :
        /\ recv[j].payload.api = UNKNOWN_API
        /\ hist[j].done
        /\ Len(published[j]) = 1
        /\ published[j][1].res.code = 9900

\* C5 as claimed: every job the listener submitted has, once its processing
\* is over, exactly one result publication.
C5_EveryJobPublishesOnce ==
    \A j \in Jobs :
        (Submitted(j) /\ hist[j].done) => Len(published[j]) = 1

\* C6 as claimed: never more than max_workers jobs are inside process_thread.
C6_AtMostPoolSizeRunning == Cardinality(Running) <= max_workers

\* C7 as claimed: of two submitted jobs, the later one is not begun before
\* the earlier one is finished.
C7_Fifo ==
    \A a, b \in Jobs :
        (a < b /\ Submitted(a) /\ Submitted(b) /\ hist[b].starts > 0) => hist[a].done

C9_ListenerNeverStops ==
    /\ [](lpc \in {"subscribe", "listen", "backoff"})
    /\ [][(lpc \in {"subscribe", "listen"} /\ lpc' \notin {lpc, "listen"})
              => (lpc' = "backoff" /\ slept' = 0)]_vars
    /\ [][(lpc = "backoff" /\ lpc' # "backoff")
              => (lpc' = "subscribe" /\ slept' = BACKOFF)]_vars
    /\ ((lpc = "backoff") ~> (lpc = "subscribe"))
    /\ ((lpc = "subscribe") ~> (lpc \in {"listen", "backoff"}))

C9_Witness ==
    /\ lpc = "subscribe"
    /\ slept = BACKOFF
    /\ gen >= 1
    /\ cause[gen + 1] = "broker"

\* C10 as claimed: once nothing is pending, every data message received on a
\* resubscription that followed a broker error was submitted and has its
\* result published.
C10_NoLossAfterReconnect ==
    Quiescent =>
        \A j \in Jobs :
            (recv[j].gen >= 2 /\ cause[recv[j].gen] = "broker")
            => (Submitted(j) /\ Len(published[j]) = 1)

\* No worker is inside process_thread with job j.
NotHeld(j) == \A gw \in Running : workers[gw[1]][gw[2]].job # j

\* C11: every published result is either a clean success (code 0, msg
\* 'success', a result field that is the engine's output for that job) or a
\* coded failure (code 9900, 9901, 9902 or 9998, a msg, no result field).
C11_NoPartialResult ==
    \A j \in Jobs : \A i \in 1..Len(published[j]) :
        LET r == published[j][i].res IN
        \/ /\ r.code = 0
           /\ r.msg = "success"
           /\ r.hasResult
           /\ hist[j].engine.ok
           /\ r.result = hist[j].engine.out
        \/ /\ r.code \in {9900, 9901, 9902, 9998}
           /\ r.msg # ""
           /\ ~r.hasResult
           /\ r.result = NoKey

C11_Witness ==
    \E j, k \in Jobs :
        /\ Len(published[j]) = 1 /\ published[j][1].res.code = 0
        /\ Len(published[k]) = 1 /\ published[k][1].res.code # 0

\* C12: for a request envelope on which processing raises something other
\* than a base64 error (no api, params, image or text key, bytes that are no
\* image, the engine raising), what is published is on the channel of the
\* request_id with code 9998; every envelope whose processing is over had
\* its result built and published once, and its worker is free again.
C12_OtherExceptionGets9998 ==
    \A j \in Jobs :
        LET p == recv[j].payload IN
        (p.kind = "obj" /\ p.rid # NoKey /\ p.data = "obj") =>
            /\ hist[j].done => (hist[j].built = 1 /\ Len(published[j]) = 1 /\ NotHeld(j))
            /\ (\/ p.api = NoKey
                \/ /\ p.api = CHAT
                   /\ \/ ~p.params
                      \/ ~p.hasImage
                      \/ /\ b64decode(p.image).ok
                         /\ \/ b64decode(p.image).n = 0
                            \/ ~p.isImg
                            \/ ~p.text
                            \/ hist[j].done /\ hist[j].calls = 1 /\ ~hist[j].engine.ok)
               => PublishedOnlyCode(j, 9998)

\* The engine raised on the first job, 9998 was published for it, and the
\* same executor has processed the next job since.
C12_Witness ==
    /\ Len(recv) = 2
    /\ recv[1].gen = recv[2].gen
    /\ hist[1].calls = 1 /\ ~hist[1].engine.ok
    /\ Len(published[1]) = 1 /\ published[1][1].res.code = 9998
    /\ recv[2].payload.api = NoKey
    /\ hist[2].done
    /\ Len(published[2]) = 1 /\ published[2][1].res.code = 9998

\* C13: every result is published on the channel named by the request_id
\* of the message it was computed from, and it is the result of that
\* message; it is on the channel of another request only when that request
\* has the same request_id.  Checked with one and with several workers.
C13_Correlation ==
    \A j \in Jobs : \A i \in 1..Len(published[j]) :
        /\ published[j][i].chan = recv[j].payload.rid
        /\ published[j][i].res = process_api(recv[j].payload, hist[j].engine)
        /\ \A k \in Jobs :
               recv[k].payload.rid # recv[j].payload.rid
               => published[j][i].chan # recv[k].payload.rid

\* Two workers of one executor: the second request, of another request_id,
\* has its result published while the first is still in the engine.
C13_Witness ==
    /\ Len(recv) = 2
    /\ max_workers > 1
    /\ recv[1].gen = recv[2].gen
    /\ recv[1].payload.rid # recv[2].payload.rid
    /\ \E w \in Slots : workers[recv[1].gen][w] = [phase |-> "engine", job |-> 1]
    /\ hist[2].calls = 1
    /\ Len(published[2]) = 1

\* C14: a step in which the listener reads an event that is not a data
\* message (the subscribe acknowledgement) leaves the queues, the workers,
\* the published results and the received messages as they were and the
\* listener listening; and a queue grows only in a step in which the
\* listening listener received a data message, by that message.
C14_OnlyMessagesSubmitted ==
    /\ [][(~acked /\ acked')
              => /\ UNCHANGED <<queue, workers, published, hist, recv, gen, slept>>
                 /\ lpc = "listen" /\ lpc' = "listen"]_vars
    /\ [][\A g \in Gens :
              queue'[g] # queue[g] /\ Len(queue'[g]) >= Len(queue[g])
              => /\ lpc = "listen" /\ g = gen
                 /\ acked /\ acked'
                 /\ Len(recv') = Len(recv) + 1
                 /\ recv'[Len(recv')].payload \in traffic
                 /\ recv'[Len(recv')].payload.kind # "badjson"
                 /\ queue'[g] = Append(queue[g], Len(recv'))]_vars

\* The acknowledgement of a resubscription was read while a job of the
\* earlier executor was running and another was pending.
C14_Witness ==
    /\ gen = 2
    /\ acked
    /\ workers[1][1].phase = "engine"
    /\ queue[1] # <<>>
    /\ queue[2] = <<>>

\* C15: whenever the listener is listening and an event can be delivered,
\* it can receive any data message that decodes and submit it, whatever the
\* workers are doing and however long the queue is.
C15_IntakeNeverBlocks ==
    (lpc = "listen" /\ broker_up /\ acked /\ Len(recv) < MaxMsgs)
    => \A payload \in traffic :
           payload.kind # "badjson" => ENABLED ReceiveMessage(payload)

\* The only worker is in an engine call, and the message received since is
\* on the queue behind it; the listener listens on.
C15_Witness ==
    /\ gen >= 1
    /\ lpc = "listen"
    /\ max_workers = 1
    /\ workers[gen][1] = [phase |-> "engine", job |-> 1]
    /\ queue[gen] = <<2>>

\* C16: a job whose publish call failed (the broker was unreachable) has
\* that one call and no other, is finished, was taken once, is on no queue
\* and with no worker; and the step of the failed call leaves the listener
\* where it was (no backoff, no new subscription) and puts nothing on a queue.
C16_PublishFailureSwallowed ==
    /\ [](\A j \in Jobs :
             (\E i \in 1..Len(published[j]) : ~published[j][i].ok)
             => /\ Len(published[j]) = 1
                /\ hist[j].done
                /\ hist[j].starts = 1
                /\ hist[j].built = 1
                /\ NotHeld(j)
                /\ \A g \in Gens : \A i \in 1..Len(queue[g]) : queue[g][i] # j)
    /\ [][\A j \in 1..MaxMsgs :
              (/\ Len(published'[j]) > Len(published[j])
               /\ ~published'[j][Len(published'[j])].ok)
              => /\ UNCHANGED <<lpc, slept, gen, cause, recv, acked>>
                 /\ \A g \in Gens : Len(queue'[g]) <= Len(queue[g])]_vars

\* The publish of the first job failed; the subscription went on, and the
\* same executor has processed and published the second job since.
C16_Witness ==
    /\ Len(recv) = 2
    /\ recv[1].gen = gen /\ recv[2].gen = gen
    /\ lpc = "listen"
    /\ Len(published[1]) = 1 /\ ~published[1][1].ok
    /\ hist[1].calls = 1
    /\ hist[2].done
    /\ Len(published[2]) = 1 /\ published[2][1].ok

\* C17: the engine is constructed once at most, in the startup step and in
\* no other; the loop, every executor and every job have the engine; with
\* too few arguments the process exits, having constructed no engine, made
\* no subscription and received nothing, and it exits for that reason only.
C17_EngineConstructedOnce ==
    /\ [](vlchat_model \in {0, 1})
    /\ []((gen >= 1 \/ lpc \in {"subscribe", "listen", "backoff"}) => vlchat_model = 1)
    /\ [](\A j \in 1..MaxMsgs : hist[j].starts > 0 => vlchat_model = 1)
    /\ [](argc < REQUIRED_ARGC
             => (vlchat_model = 0 /\ gen = 0 /\ recv = <<>> /\ lpc \in {"start", "exit"}))
    /\ [](lpc = "exit" => argc < REQUIRED_ARGC)
    /\ [][vlchat_model' # vlchat_model
              => (lpc = "start" /\ lpc' = "subscribe" /\ gen = 0 /\ vlchat_model = 0)]_vars

\* After a broker error the listener has subscribed again and a job of the
\* new executor has run: the engine is still the one of the startup.
C17_Witness ==
    /\ argc = REQUIRED_ARGC
    /\ gen = 2
    /\ cause[2] = "broker"
    /\ vlchat_model = 1
    /\ \E j \in Jobs : recv[j].gen = 2 /\ hist[j].calls = 1 /\ hist[j].done

\* C18 as claimed: the listener goes into its backoff, and makes a new
\* subscription and executor, because of broker errors only, never because
\* of a data message it received.
C18_BackoffOnlyOnBrokerError == \A g \in Gens : cause[g] # "json"

\* The payload decoded as JSON and is no request envelope.
NoEnvelope(p) ==
    \/ p.kind = "notobj"
    \/ p.kind = "obj" /\ (p.rid = NoKey \/ p.data # "obj")

\* C19: for a message that decodes as JSON and lacks request_id or data, or
\* whose top level or data is no object, nothing is ever published, the
\* engine is not called and no worker stays with it; the step in which a
\* worker takes it finishes it and leaves the published results, the workers
\* and the listener (its subscription, no backoff) as they were.
C19_NoEnvelopeDropped ==
    /\ [](\A j \in Jobs :
             NoEnvelope(recv[j].payload)
             => /\ published[j] = <<>>
                /\ hist[j].calls = 0
                /\ hist[j].built = 0
                /\ hist[j].starts <= 1
                /\ NotHeld(j))
    /\ [][\A j \in Jobs :
              (NoEnvelope(recv[j].payload) /\ hist'[j].starts > hist[j].starts)
              => /\ hist'[j].done
                 /\ UNCHANGED <<published, workers, lpc, slept, acked, gen, cause, recv>>]_vars

\* A message without request_id was dropped; the same worker has processed
\* the request that came after it, and the listener listens on the same
\* subscription.
C19_Witness ==
    /\ Len(recv) = 2
    /\ recv[1].payload.kind = "obj" /\ recv[1].payload.rid = NoKey
    /\ hist[1].done
    /\ published[1] = <<>>
    /\ recv[2].gen = recv[1].gen /\ gen = recv[1].gen
    /\ lpc = "listen"
    /\ hist[2].done
    /\ Len(published[2]) = 1 /\ published[2][1].res.code = 0

====
